---- MODULE Spec2Model ----
(***************************************************************************)
(* Model of src/qt/transactionrecord.cpp: the decomposition of a wallet    *)
(* transaction into display records (decomposeTransaction) and the status  *)
(* computation of one record (updateStatus, statusUpdateNeeded).           *)
(*                                                                         *)
(* Three specifications share the variables:                               *)
(*   Spec       - decomposeTransaction applied to a bounded transaction    *)
(*   SpecStatus - one record whose status is recomputed while the chain,   *)
(*                the clock and the wallet's view of the transaction move  *)
(*   SpecSort   - two table rows whose sort keys are computed              *)
(***************************************************************************)
EXTENDS Integers, Sequences, FiniteSets, TLC

VARIABLES wtx, parts, pc,
          rec, stx, nBestHeight, now, spc, hComputed,
          rowA, rowB, txA, txB

decVars == <<wtx, parts, pc>>
staVars == <<rec, stx, nBestHeight, now, spc, hComputed>>
srtVars == <<rowA, rowB, txA, txB>>
vars == <<wtx, parts, pc, rec, stx, nBestHeight, now, spc, hComputed,
          rowA, rowB, txA, txB>>

(***************************************************************************)
(* Bounds of the model.                                                    *)
(***************************************************************************)
MaxIn == 2
MaxOut == 2
MaxHeight == 101

Heights == 100..MaxHeight
InValues == {100, 510}
OutValues == {100, 500}
Depths == {0, 1, 2}

(***************************************************************************)
(* Types of the record (TransactionRecord::Type).                          *)
(***************************************************************************)
Types == {"Other", "Generated", "StakeMint", "SendToAddress", "SendToOther",
          "RecvWithAddress", "RecvFromOther", "SendToSelf"}

Kinds == {"normal", "coinbase", "coinstake"}

SeqsUpTo(S, n) == UNION {[1..k -> S] : k \in 0..n}

(***************************************************************************)
(* The wallet's and the transaction's queries.  Their code lives in the    *)
(* wallet engine; they are modelled from their description: ownership is   *)
(* a flag of each input and output, the aggregates are sums over them.     *)
(***************************************************************************)
IsCoinBase(w) == w.kind = "coinbase"
IsCoinStake(w) == w.kind = "coinstake"
GetDepthInMainChain(w) == w.depth
IsMine(x) == x.mine

RECURSIVE SumValue(_)
SumValue(s) == IF s = <<>> THEN 0 ELSE Head(s).nValue + SumValue(Tail(s))

IsChange(x) == x.mine /\ x.change

GetValueOut(w) == SumValue(w.vout)
GetDebit(w) == SumValue(SelectSeq(w.vin, IsMine))
GetChange(w) == SumValue(SelectSeq(w.vout, IsChange))
\* the credit of a reward that has not matured is reported as zero
GetCredit(w) ==
    IF (IsCoinBase(w) \/ IsCoinStake(w)) /\ w.immature THEN 0
    ELSE SumValue(SelectSeq(w.vout, IsMine))

ExtractAddress(txout) == txout.addr
HaveKey(txout) == txout.haveKey
MapValueFrom == "from"
MapValueTo == "to"
AddressString == "address"

(***************************************************************************)
(* The transactions of the model.                                          *)
(***************************************************************************)
TxIn == [mine : BOOLEAN, nValue : InValues]
NullIn == [mine |-> FALSE, nValue |-> 0]
OutKinds == {[mine |-> FALSE, addr |-> TRUE, haveKey |-> FALSE, change |-> FALSE],
             [mine |-> FALSE, addr |-> FALSE, haveKey |-> FALSE, change |-> FALSE],
             [mine |-> TRUE, addr |-> TRUE, haveKey |-> TRUE, change |-> FALSE],
             [mine |-> TRUE, addr |-> TRUE, haveKey |-> TRUE, change |-> TRUE],
             [mine |-> TRUE, addr |-> FALSE, haveKey |-> FALSE, change |-> FALSE]}
TxOut == {[nValue |-> v, mine |-> k.mine, addr |-> k.addr, haveKey |-> k.haveKey,
           change |-> k.change] : v \in OutValues, k \in OutKinds}
EmptyOut == [nValue |-> 0, mine |-> FALSE, addr |-> FALSE, haveKey |-> FALSE,
             change |-> FALSE]

\* a coinbase has one null input; a coinstake has a real first input and an
\* empty first output; any other transaction spends at least what it pays
ValidTx(w) ==
    /\ w.vin # <<>>
    /\ IsCoinBase(w) => w.vin = <<NullIn>> /\ (\A i \in DOMAIN w.vout : w.vout[i] \in TxOut)
    /\ IsCoinStake(w) =>
          /\ \A i \in DOMAIN w.vin : w.vin[i] \in TxIn
          /\ Len(w.vout) >= 2
          /\ w.vout[1] = EmptyOut
          /\ \A i \in 2..Len(w.vout) : w.vout[i] \in TxOut
    /\ w.kind = "normal" =>
          /\ ~w.immature
          /\ \A i \in DOMAIN w.vin : w.vin[i] \in TxIn
          /\ \A i \in DOMAIN w.vout : w.vout[i] \in TxOut
          /\ SumValue(w.vin) >= SumValue(w.vout)

WalletTxs ==
    {w \in [kind : Kinds, depth : Depths, immature : BOOLEAN,
            vin : SeqsUpTo(TxIn \cup {NullIn}, MaxIn),
            vout : SeqsUpTo(TxOut \cup {EmptyOut}, MaxOut)] : ValidTx(w)}

(***************************************************************************)
(* showTransaction                                                         *)
(***************************************************************************)
showTransaction(w) ==
    IF IsCoinBase(w) /\ GetDepthInMainChain(w) < 2 THEN FALSE ELSE TRUE

(***************************************************************************)
(* decomposeTransaction                                                    *)
(***************************************************************************)
\* the constructor with type, address, debit and credit; idx starts at 0
TransactionRecord(type, address, debit, credit) ==
    [type |-> type, address |-> address, debit |-> debit, credit |-> credit,
     idx |-> 0]

\* the constructor with hash and time only
TransactionRecordEmpty == TransactionRecord("Other", "", 0, 0)

CreditSubIdx(ps) == Len(ps)

CreditSub(w, txout, ps) ==
    LET sub == [TransactionRecordEmpty EXCEPT !.idx = CreditSubIdx(ps),
                                              !.credit = txout.nValue]
    IN  IF IsCoinBase(w)
        THEN [sub EXCEPT !.type = "Generated"]
        ELSE IF ExtractAddress(txout) /\ HaveKey(txout)
        THEN [sub EXCEPT !.type = "RecvWithAddress", !.address = AddressString]
        ELSE [sub EXCEPT !.type = "RecvFromOther", !.address = MapValueFrom]

RECURSIVE CreditParts(_, _, _)
CreditParts(w, i, ps) ==
    IF i > Len(w.vout) THEN ps
    ELSE IF IsMine(w.vout[i])
    THEN CreditParts(w, i + 1, Append(ps, CreditSub(w, w.vout[i], ps)))
    ELSE CreditParts(w, i + 1, ps)

fAllFromMeOf(w) == \A i \in DOMAIN w.vin : IsMine(w.vin[i])

fAllToMeNonEmpty(w) == w.vout # <<>> /\ \A i \in DOMAIN w.vout : IsMine(w.vout[i])
fAllToMeOf(w) == \A i \in DOMAIN w.vout : IsMine(w.vout[i])

SendToSelfRecord(w) ==
    LET nChange == GetChange(w)
    IN  TransactionRecord("SendToSelf", "", -(GetDebit(w) - nChange),
                          GetCredit(w) - nChange)

TxFee(w) == GetDebit(w) - GetValueOut(w)

DebitSubIdxByOutput(ps, nOut) == nOut
DebitSubIdx(ps, nOut) == Len(ps)

FeeForgotten(nValue, nTxFee) == nValue
FeeFolded(nValue, nTxFee) == IF nTxFee > 0 THEN nValue + nTxFee ELSE nValue

FeeKept(nTxFee) == nTxFee
FeeLeft(nTxFee) == IF nTxFee > 0 THEN 0 ELSE nTxFee

DebitSub(txout, ps, nOut, nTxFee) ==
    LET sub == [TransactionRecordEmpty EXCEPT !.idx = DebitSubIdx(ps, nOut)]
        typed == IF ExtractAddress(txout)
                 THEN [sub EXCEPT !.type = "SendToAddress", !.address = AddressString]
                 ELSE [sub EXCEPT !.type = "SendToOther", !.address = MapValueTo]
    IN  [typed EXCEPT !.debit = -FeeFolded(txout.nValue, nTxFee)]

\* nOut is the 0-based position of the loop
RECURSIVE DebitParts(_, _, _, _)
DebitParts(w, nOut, nTxFee, ps) ==
    IF ~(nOut < Len(w.vout)) THEN ps
    ELSE LET txout == w.vout[nOut + 1]
         IN  IF IsMine(txout)
             THEN DebitParts(w, nOut + 1, nTxFee, ps)
             ELSE DebitParts(w, nOut + 1, FeeLeft(nTxFee),
                             Append(ps, DebitSub(txout, ps, nOut, nTxFee)))

decomposeTransaction(w) ==
    LET nCredit == GetCredit(w)
        nDebit == GetDebit(w)
        nNet == nCredit - nDebit
    IN  IF ~showTransaction(w) THEN <<>>
        ELSE IF IsCoinStake(w)
        THEN <<TransactionRecord("StakeMint", "", -nDebit, GetValueOut(w))>>
        ELSE IF nNet > 0 \/ IsCoinBase(w)
        THEN CreditParts(w, 1, <<>>)
        ELSE IF fAllFromMeOf(w) /\ fAllToMeOf(w)
        THEN <<SendToSelfRecord(w)>>
        ELSE IF fAllFromMeOf(w)
        THEN DebitParts(w, 0, TxFee(w), <<>>)
        ELSE <<TransactionRecord("Other", "", nNet, 0)>>

(***************************************************************************)
(* Strings of the sort key: sequences of character codes, compared as      *)
(* std::string compares them.                                              *)
(***************************************************************************)
Zero == 48
Dash == 45

RECURSIVE Dec(_)
Dec(n) == IF n < 10 THEN <<Zero + n>> ELSE Append(Dec(n \div 10), Zero + (n % 10))

\* %0<w>d and %0<w>u of a non-negative number: at least w digits, zero padded
PadNum(n, w) ==
    LET d == Dec(n)
        k == w - Len(d)
    IN  IF k <= 0 THEN d
        ELSE [i \in 1..w |-> IF i <= k THEN Zero ELSE d[i - k]]

RECURSIVE StrLess(_, _)
StrLess(a, b) ==
    IF b = <<>> THEN FALSE
    ELSE IF a = <<>> THEN TRUE
    ELSE IF Head(a) # Head(b) THEN Head(a) < Head(b)
    ELSE StrLess(Tail(a), Tail(b))

(***************************************************************************)
(* updateStatus                                                            *)
(***************************************************************************)
INT_MAX == 2147483647
LOCKTIME_THRESHOLD == 500000000
NumConfirmations == 6
NoBlock == -1

\* TransactionStatus as constructed
InitialStatus ==
    [sortKey |-> <<>>, confirmed |-> FALSE, depth |-> 0, cur_num_blocks |-> -1,
     status |-> "Offline", open_for |-> 0, maturity |-> "Mature", matures_in |-> 0]

NewRecord(type, idx) == [type |-> type, idx |-> idx, status |-> InitialStatus]

SortHeightZero(w) == IF w.pindex # NoBlock THEN w.pindex ELSE 0
SortHeight(w) == IF w.pindex # NoBlock THEN w.pindex ELSE INT_MAX

SortKey(w, idx) ==
    PadNum(SortHeight(w), 10) \o <<Dash>> \o
    PadNum(IF w.isCoinBase THEN 1 ELSE 0, 1) \o <<Dash>> \o
    PadNum(w.nTimeReceived, 10) \o <<Dash>> \o
    PadNum(idx, 3)

OfflineTestInclusive(w, t) == t - w.nTimeReceived >= 2 * 60 /\ w.requestCount = 0
OfflineTest(w, t) == t - w.nTimeReceived > 2 * 60 /\ w.requestCount = 0

\* lines 181-208: the state and, when the transaction is not final, open_for
Lifecycle(old, w, h, t) ==
    IF ~w.final
    THEN IF w.nLockTime < LOCKTIME_THRESHOLD
         THEN [status |-> "OpenUntilBlock", open_for |-> h - w.nLockTime]
         ELSE [status |-> "OpenUntilDate", open_for |-> w.nLockTime]
    ELSE IF OfflineTest(w, t)
         THEN [status |-> "Offline", open_for |-> old.open_for]
         ELSE IF w.depth < NumConfirmations
         THEN [status |-> "Unconfirmed", open_for |-> old.open_for]
         ELSE [status |-> "HaveConfirmations", open_for |-> old.open_for]

WarningTestInclusive(w, t) == t - w.nTimeReceived >= 2 * 60 /\ w.requestCount = 0
WarningTest(w, t) == t - w.nTimeReceived > 2 * 60 /\ w.requestCount = 0

IsReward(type) == type = "Generated" \/ type = "StakeMint"

\* a variant that does not reset the state to Immature first
MaturityKeepsOld(old, type, w, t) ==
    IF IsReward(type)
    THEN IF w.nCredit = 0
         THEN IF w.inMainChain
              THEN [maturity |-> IF WarningTest(w, t) THEN "MaturesWarning"
                                 ELSE old.maturity,
                    matures_in |-> w.blocksToMaturity]
              ELSE [maturity |-> "NotAccepted", matures_in |-> old.matures_in]
         ELSE [maturity |-> "Mature", matures_in |-> old.matures_in]
    ELSE [maturity |-> old.maturity, matures_in |-> old.matures_in]
\* lines 210-235
Maturity(old, type, w, t) ==
    IF IsReward(type)
    THEN IF w.nCredit = 0
         THEN IF w.inMainChain
              THEN [maturity |-> IF WarningTest(w, t) THEN "MaturesWarning"
                                 ELSE "Immature",
                    matures_in |-> w.blocksToMaturity]
              ELSE [maturity |-> "NotAccepted", matures_in |-> old.matures_in]
         ELSE [maturity |-> "Mature", matures_in |-> old.matures_in]
    ELSE [maturity |-> old.maturity, matures_in |-> old.matures_in]

updateStatus(r, w, h, t) ==
    LET life == Lifecycle(r.status, w, h, t)
        mat == Maturity(r.status, r.type, w, t)
    IN  [r EXCEPT !.status =
            [sortKey |-> SortKey(w, r.idx),
             confirmed |-> w.confirmed,
             depth |-> w.depth,
             cur_num_blocks |-> h,
             status |-> life.status,
             open_for |-> life.open_for,
             maturity |-> mat.maturity,
             matures_in |-> mat.matures_in]]

statusUpdateNeededBehind(r) == r.status.cur_num_blocks < nBestHeight
statusUpdateNeeded(r) == r.status.cur_num_blocks # nBestHeight

(***************************************************************************)
(* The wallet's view of the transaction a record belongs to, as            *)
(* updateStatus reads it.                                                  *)
(***************************************************************************)
StatusTypes == {"Generated", "StakeMint", "SendToAddress"}
StatusIdx == {0}
ReceiveTimes == {1}
LockTimes == {90, 110, LOCKTIME_THRESHOLD}
Times == {121, 221}
RequestCounts == {0, 1}
\* not in a block (unconfirmed, or trusted as the wallet's own spend); in a
\* block of the main chain, 5 or 6 deep
ChainPositions == {[pindex |-> NoBlock, depth |-> 0, inMainChain |-> FALSE,
                    confirmed |-> FALSE],
                   [pindex |-> NoBlock, depth |-> 0, inMainChain |-> FALSE,
                    confirmed |-> TRUE],
                   [pindex |-> 7, depth |-> NumConfirmations - 1,
                    inMainChain |-> TRUE, confirmed |-> TRUE],
                   [pindex |-> 7, depth |-> NumConfirmations,
                    inMainChain |-> TRUE, confirmed |-> TRUE]}
\* no credit yet and 3 or 7 blocks to maturity, or a credit and mature
CreditViews == {[nCredit |-> 0, blocksToMaturity |-> 3],
                [nCredit |-> 0, blocksToMaturity |-> 7],
                [nCredit |-> 50, blocksToMaturity |-> 0]}

BaseTx(coinbase, received, lock) ==
    [pindex |-> NoBlock, isCoinBase |-> coinbase, nTimeReceived |-> received,
     confirmed |-> FALSE, depth |-> 0, inMainChain |-> FALSE, final |-> TRUE,
     nLockTime |-> lock, requestCount |-> 1, nCredit |-> 0,
     blocksToMaturity |-> 3]

IdleTx == BaseTx(FALSE, 1, 90)
IdleWtx == [kind |-> "normal", depth |-> 0, immature |-> FALSE,
            vin |-> <<[mine |-> TRUE, nValue |-> 100]>>, vout |-> <<>>]

DecIdle == wtx = IdleWtx /\ parts = <<>> /\ pc = "idle"
StaIdle ==
    /\ rec = NewRecord("Other", 0)
    /\ stx = IdleTx
    /\ nBestHeight = 100
    /\ now = 121
    /\ spc = "idle"
    /\ hComputed = -1
SrtIdle ==
    /\ rowA = NewRecord("Other", 0)
    /\ rowB = NewRecord("Other", 0)
    /\ txA = IdleTx
    /\ txB = IdleTx

(***************************************************************************)
(* Spec: decomposeTransaction applied to a wallet transaction.             *)
(***************************************************************************)
Init ==
    /\ wtx \in WalletTxs
    /\ parts = <<>>
    /\ pc = "start"
    /\ StaIdle
    /\ SrtIdle

Decompose ==
    /\ pc = "start"
    /\ parts' = decomposeTransaction(wtx)
    /\ pc' = "done"
    /\ UNCHANGED <<wtx, staVars, srtVars>>

Next == Decompose

Spec == Init /\ [][Next]_vars

(***************************************************************************)
(* SpecStatus: the status of one record, recomputed from the wallet's      *)
(* current view of its transaction, the best height and the adjusted time. *)
(***************************************************************************)
InitStatus ==
    /\ DecIdle
    /\ SrtIdle
    /\ rec \in {NewRecord(t, i) : t \in StatusTypes, i \in StatusIdx}
    /\ stx \in {BaseTx(rec.type = "Generated", r, l) : r \in ReceiveTimes, l \in LockTimes}
    /\ nBestHeight = 100
    /\ now = 121
    /\ spc = "fresh"
    /\ hComputed = -1

\* the wallet's view the call reads, then the call
UpdateStatus ==
    /\ \E c \in ChainPositions, fin \in BOOLEAN, rq \in RequestCounts,
          cr \in CreditViews :
          stx' = [stx EXCEPT !.pindex = c.pindex, !.depth = c.depth,
                             !.inMainChain = c.inMainChain,
                             !.confirmed = c.confirmed,
                             !.final = fin, !.requestCount = rq,
                             !.nCredit = cr.nCredit,
                             !.blocksToMaturity = cr.blocksToMaturity]
    /\ rec' = updateStatus(rec, stx', nBestHeight, now)
    /\ hComputed' = nBestHeight
    /\ spc' = "updated"
    /\ UNCHANGED <<nBestHeight, now, decVars, srtVars>>

ConnectBlock ==
    /\ nBestHeight + 1 \in Heights
    /\ nBestHeight' = nBestHeight + 1
    /\ spc' = IF spc = "fresh" THEN "fresh" ELSE "stale"
    /\ UNCHANGED <<rec, stx, now, hComputed, decVars, srtVars>>

DisconnectBlock ==
    /\ nBestHeight - 1 \in Heights
    /\ nBestHeight' = nBestHeight - 1
    /\ spc' = IF spc = "fresh" THEN "fresh" ELSE "stale"
    /\ UNCHANGED <<rec, stx, now, hComputed, decVars, srtVars>>

Tick ==
    /\ \E t \in Times : t > now /\ now' = t
    /\ spc' = IF spc = "fresh" THEN "fresh" ELSE "stale"
    /\ UNCHANGED <<rec, stx, nBestHeight, hComputed, decVars, srtVars>>

NextStatus == UpdateStatus \/ ConnectBlock \/ DisconnectBlock \/ Tick

SpecStatus == InitStatus /\ [][NextStatus]_vars

(***************************************************************************)
(* SpecSort: two rows of the transaction table, each with its own          *)
(* transaction, whose status is computed.                                  *)
(***************************************************************************)
SortHeights == {NoBlock, 0, 7, INT_MAX - 1, INT_MAX}
SortTimes == {1, INT_MAX}
SortIdx == {0, 999}
SortTypes == {"Generated", "RecvWithAddress"}

SortTx(coinbase, received, height) ==
    [BaseTx(coinbase, received, 0) EXCEPT !.pindex = height,
                                          !.depth = IF height = NoBlock THEN 0 ELSE 1,
                                          !.inMainChain = height # NoBlock,
                                          !.confirmed = height # NoBlock]

InitSort ==
    /\ DecIdle
    /\ StaIdle
    /\ rowA \in {NewRecord(t, i) : t \in SortTypes, i \in SortIdx}
    /\ rowB \in {NewRecord(t, i) : t \in SortTypes, i \in SortIdx}
    /\ txA = IdleTx
    /\ txB = IdleTx

UpdateRowA ==
    /\ \E r \in SortTimes, h \in SortHeights :
          txA' = SortTx(rowA.type = "Generated", r, h)
    /\ rowA' = updateStatus(rowA, txA', nBestHeight, now)
    /\ UNCHANGED <<rowB, txB, decVars, staVars>>

UpdateRowB ==
    /\ \E r \in SortTimes, h \in SortHeights :
          txB' = SortTx(rowB.type = "Generated", r, h)
    /\ rowB' = updateStatus(rowB, txB', nBestHeight, now)
    /\ UNCHANGED <<rowA, txA, decVars, staVars>>

NextSort == UpdateRowA \/ UpdateRowB

SpecSort == InitSort /\ [][NextSort]_vars

(***************************************************************************)
(* Properties of decomposeTransaction (checked under Spec).                *)
(***************************************************************************)
RECURSIVE SumParts(_)
SumParts(ps) ==
    IF ps = <<>> THEN 0 ELSE Head(ps).debit + Head(ps).credit + SumParts(Tail(ps))

NotMine(x) == ~x.mine
NetOf(w) == GetCredit(w) - GetDebit(w)
InStakeBranch(w) == showTransaction(w) /\ IsCoinStake(w)
InCreditBranch(w) ==
    showTransaction(w) /\ ~IsCoinStake(w) /\ (NetOf(w) > 0 \/ IsCoinBase(w))
InNetDebitBranch(w) ==
    showTransaction(w) /\ ~IsCoinStake(w) /\ ~(NetOf(w) > 0 \/ IsCoinBase(w))
InDebitBranch(w) ==
    InNetDebitBranch(w) /\ fAllFromMeOf(w) /\ \E i \in DOMAIN w.vout : ~w.vout[i].mine

\* C1: a reward-type transaction (coinbase or stake-mint) with fewer than 2
\* confirming blocks yields no record; every other transaction is visible.
C1_RewardHiddenUntilTwoDeep ==
    pc = "done" =>
        IF (IsCoinBase(wtx) \/ IsCoinStake(wtx)) /\ GetDepthInMainChain(wtx) < 2
        THEN parts = <<>>
        ELSE showTransaction(wtx)

\* C2: the records' debit+credit sum to the net wallet value change,
\* totalCredit - totalDebit, for any transaction and in every branch.
C2_SumIsNetChange ==
    pc = "done" /\ showTransaction(wtx) => SumParts(parts) = NetOf(wtx)

\* C2 (amended): the sum is the net change in the self-payment, debit and
\* mixed branches; it is the value of the wallet-owned outputs in the
\* net-credit/reward branch, totalOutputValue - totalDebit in the stake-mint
\* branch, and 0 for a hidden transaction.
C2_SumByBranch ==
    pc = "done" =>
        SumParts(parts) =
            IF ~showTransaction(wtx) THEN 0
            ELSE IF InStakeBranch(wtx) THEN GetValueOut(wtx) - GetDebit(wtx)
            ELSE IF InCreditBranch(wtx) THEN SumValue(SelectSeq(wtx.vout, IsMine))
            ELSE NetOf(wtx)

C2_Witness ==
    /\ pc = "done"
    /\ InDebitBranch(wtx)
    /\ TxFee(wtx) > 0
    /\ \E i \in DOMAIN wtx.vout : IsChange(wtx.vout[i])
    /\ Len(parts) = 1
    /\ SumParts(parts) = NetOf(wtx)

\* C3: the idx fields of the records are 0, 1, ..., n-1 in list order, also
\* in the debit branch where wallet-owned outputs are skipped.
C3_DenseIndices ==
    pc = "done" => \A i \in 1..Len(parts) : parts[i].idx = i - 1

C3_Witness ==
    /\ pc = "done"
    /\ InDebitBranch(wtx)
    /\ Len(wtx.vout) = 2
    /\ wtx.vout[1].mine
    /\ ~wtx.vout[2].mine
    /\ Len(parts) = 1
    /\ parts[1].idx = 0

\* C6: in the debit branch there is one record per output that is not
\* wallet-owned, in output order; the first has debit -(value + fee) with
\* fee = totalDebit - totalOutputValue, every later one debit -value.
C6_FeeOnFirstRecord ==
    pc = "done" /\ InDebitBranch(wtx) =>
        LET ext == SelectSeq(wtx.vout, NotMine)
        IN  /\ Len(parts) = Len(ext)
            /\ \A i \in 1..Len(parts) :
                  /\ parts[i].debit = -(ext[i].nValue + IF i = 1 THEN TxFee(wtx) ELSE 0)
                  /\ parts[i].credit = 0
                  /\ parts[i].type \in {"SendToAddress", "SendToOther"}
            /\ (Len(ext) = 1 /\ ext[1].nValue = 500 /\ TxFee(wtx) = 10
                  => parts[1].debit = -510)

C6_Witness ==
    /\ pc = "done"
    /\ InDebitBranch(wtx)
    /\ TxFee(wtx) = 10
    /\ Len(parts) = 2
    /\ parts[1].debit = -510
    /\ parts[2].debit = -100

\* C10: a transaction without outputs yields no record, in the
\* net-credit/reward branch and in the net-debit-or-zero branch.
C10_NoOutputsNoRecords == pc = "done" /\ wtx.vout = <<>> => parts = <<>>

\* C10 (amended): a transaction without outputs yields no record in the
\* net-credit/reward branch (or when hidden) and exactly one record in the
\* net-debit-or-zero branch: SendToSelf when all inputs are wallet-owned,
\* Other otherwise.
C10_NoOutputsOneRecord ==
    pc = "done" /\ wtx.vout = <<>> =>
        IF InNetDebitBranch(wtx)
        THEN /\ Len(parts) = 1
             /\ parts[1].type = IF fAllFromMeOf(wtx) THEN "SendToSelf" ELSE "Other"
        ELSE parts = <<>>

C10_Witness ==
    /\ pc = "done"
    /\ wtx.vout = <<>>
    /\ InNetDebitBranch(wtx)
    /\ fAllFromMeOf(wtx)
    /\ Len(parts) = 1
    /\ parts[1].type = "SendToSelf"

(***************************************************************************)
(* Properties of updateStatus and statusUpdateNeeded (checked under        *)
(* SpecStatus).                                                            *)
(***************************************************************************)
FreshStatus == updateStatus(NewRecord(rec.type, rec.idx), stx, nBestHeight, now).status

\* C5: the status after a call equals, field by field, the status the same
\* call produces on a freshly created record.
C5_SameAsOnFreshRecord == spc = "updated" => rec.status = FreshStatus

\* C5 (amended): after a call, sortKey, confirmed, depth, cur_num_blocks,
\* status and maturity equal what the call produces on a fresh record;
\* open_for does when the transaction is not final, and matures_in when the
\* record is Generated or StakeMint, the credit is zero and the transaction is
\* in the main chain.  Otherwise open_for and matures_in keep their values.
C5_FieldsWrittenByCall ==
    spc = "updated" =>
        /\ rec.status.sortKey = FreshStatus.sortKey
        /\ rec.status.confirmed = FreshStatus.confirmed
        /\ rec.status.depth = FreshStatus.depth
        /\ rec.status.cur_num_blocks = FreshStatus.cur_num_blocks
        /\ rec.status.status = FreshStatus.status
        /\ rec.status.maturity = FreshStatus.maturity
        /\ ~stx.final => rec.status.open_for = FreshStatus.open_for
        /\ IsReward(rec.type) /\ stx.nCredit = 0 /\ stx.inMainChain
              => rec.status.matures_in = FreshStatus.matures_in

C5_Witness ==
    /\ spc = "updated"
    /\ stx.final
    /\ rec.status.open_for # FreshStatus.open_for
    /\ rec.status.status = FreshStatus.status

\* C7: once the status has been computed at height h, statusUpdateNeeded is
\* true exactly when the best height differs from h, and false right after
\* the computation.
C7_NeedsRefreshIffHeightMoved ==
    spc \in {"updated", "stale"} =>
        /\ statusUpdateNeeded(rec) <=> nBestHeight # hComputed
        /\ spc = "updated" => ~statusUpdateNeeded(rec)

C7_Witness ==
    /\ spc = "stale"
    /\ nBestHeight < hComputed
    /\ statusUpdateNeeded(rec)

\* C8: the lifecycle state is chosen by the first matching rule: not final
\* and lock below the threshold -> OpenUntilBlock, open_for = height - lock;
\* not final otherwise -> OpenUntilDate, open_for = lock; final, more than
\* 120 s since receipt and never requested -> Offline; final and depth below
\* NumConfirmations -> Unconfirmed; otherwise HaveConfirmations.
C8_LifecycleRules ==
    spc = "updated" =>
        LET st == rec.status
            offline == now - stx.nTimeReceived > 120 /\ stx.requestCount = 0
        IN  /\ ~stx.final /\ stx.nLockTime < LOCKTIME_THRESHOLD
                  => st.status = "OpenUntilBlock"
                     /\ st.open_for = nBestHeight - stx.nLockTime
            /\ ~stx.final /\ stx.nLockTime = 90 /\ nBestHeight = 100
                  => st.open_for = 10
            /\ ~stx.final /\ ~(stx.nLockTime < LOCKTIME_THRESHOLD)
                  => st.status = "OpenUntilDate" /\ st.open_for = stx.nLockTime
            /\ stx.final /\ offline => st.status = "Offline"
            /\ stx.final /\ ~offline /\ stx.depth < NumConfirmations
                  => st.status = "Unconfirmed"
            /\ stx.final /\ ~offline /\ ~(stx.depth < NumConfirmations)
                  => st.status = "HaveConfirmations"

C8_Witness ==
    /\ spc = "updated"
    /\ ~stx.final
    /\ stx.nLockTime = 90
    /\ nBestHeight = 100
    /\ rec.status.status = "OpenUntilBlock"
    /\ rec.status.open_for = 10

\* C9: a call on a Generated or StakeMint record sets maturity to Mature when
\* the credit is non-zero, to NotAccepted when it is zero and the transaction
\* is not in the main chain, and otherwise sets matures_in and maturity to
\* MaturesWarning (more than 120 s since receipt, never requested) or Immature;
\* a call on a record of another type leaves maturity and matures_in alone.
C9_MaturityRules ==
    [][spc' = "updated" =>
          LET st == rec'.status
              warn == now' - stx'.nTimeReceived > 120 /\ stx'.requestCount = 0
          IN  IF rec.type = "Generated" \/ rec.type = "StakeMint"
              THEN /\ stx'.nCredit # 0 => st.maturity = "Mature"
                   /\ stx'.nCredit = 0 /\ ~stx'.inMainChain
                         => st.maturity = "NotAccepted"
                   /\ stx'.nCredit = 0 /\ stx'.inMainChain
                         => /\ st.matures_in = stx'.blocksToMaturity
                            /\ st.maturity = IF warn THEN "MaturesWarning"
                                             ELSE "Immature"
              ELSE /\ st.maturity = rec.status.maturity
                   /\ st.matures_in = rec.status.matures_in]_vars

C9_Witness ==
    /\ spc = "updated"
    /\ rec.type = "StakeMint"
    /\ stx.nCredit = 0
    /\ stx.inMainChain
    /\ now - stx.nTimeReceived > 120
    /\ rec.status.maturity = "MaturesWarning"
    /\ rec.status.matures_in = 7

(***************************************************************************)
(* Property of the sort key (checked under SpecSort).                      *)
(***************************************************************************)
Computed(r) == r.status.cur_num_blocks # -1

\* C4: the sort key of a transaction without confirming block is
\* lexicographically less than the sort key of a transaction with one.
C4_UnconfirmedKeyLess ==
    Computed(rowA) /\ Computed(rowB) /\ txA.pindex = NoBlock /\ txB.pindex # NoBlock
        => StrLess(rowA.status.sortKey, rowB.status.sortKey)

\* C4 (amended): the sort key of a transaction without confirming block is
\* lexicographically greater than the sort key of a transaction confirmed at
\* any height below INT_MAX, whatever the coinbase flags, receive times and
\* indices.
C4_UnconfirmedKeyGreater ==
    Computed(rowA) /\ Computed(rowB) /\ txA.pindex = NoBlock
    /\ txB.pindex # NoBlock /\ txB.pindex < INT_MAX
        => StrLess(rowB.status.sortKey, rowA.status.sortKey)

C4_Witness ==
    /\ Computed(rowA)
    /\ Computed(rowB)
    /\ txA.pindex = NoBlock
    /\ txB.pindex = INT_MAX - 1
    /\ txA.nTimeReceived < txB.nTimeReceived
    /\ rowA.idx < rowB.idx
    /\ ~txA.isCoinBase
    /\ txB.isCoinBase
    /\ StrLess(rowB.status.sortKey, rowA.status.sortKey)

====
